---- MODULE Spec2Model ----
(***************************************************************************)
(* A model of editor/graph.py: class Graph, an undirected graph kept as an *)
(* adjacency map (a defaultdict of sets), with its editing operations and  *)
(* its connectivity queries.                                               *)
(*                                                                         *)
(* A Python dict keeps its keys in insertion order, and that order is what *)
(* connectedComps, vertIndices and edgeIndices iterate over, so the map is *)
(* a record [keys, adj]: keys is the sequence of keys in insertion order   *)
(* and adj the function from the keys to their neighbour sets.             *)
(*                                                                         *)
(* The iteration order of a Python set is not specified.  Every operation  *)
(* that iterates over a set takes an order `ord` of the node universe, and *)
(* the actions choose it among Orders.                                     *)
(***************************************************************************)
EXTENDS Integers, Sequences, FiniteSets, TLC

\* ------------------------------------------------------------------ bounds
\* Coordinates of the node universe: the nodes (i, i), i in 0..MaxCoord, the
\* shape of the nodes the tests use.
MaxCoord == 2
\* The number of calls of one run that write to the graph.
MaxOps == 4

Coords == 0..MaxCoord
Nodes == {<<i, i>> : i \in Coords}
Offsets == {<<d, d>> : d \in (0 - MaxCoord)..MaxCoord}
\* The recursion depth limits tried: the largest one lets the recursive
\* traversal finish on every graph over Nodes.
Limits == 1..(MaxCoord + 1)

\* The orders tried for the iteration of a set of nodes: by ascending and by
\* descending coordinate.
Ascending == [i \in 1..Cardinality(Nodes) |-> <<i - 1, i - 1>>]
Reverse(s) == [i \in 1..Len(s) |-> s[Len(s) + 1 - i]]
Orders == {Ascending, Reverse(Ascending)}

\* list(S), for a set S, under the iteration order ord.
SetSeq(S, ord) == LET In(x) == x \in S IN SelectSeq(ord, In)

Range(s) == {s[i] : i \in 1..Len(s)}

\* ------------------------------------------------------------ the dict
\* defaultdict(set)
EmptyGraph == [keys |-> <<>>, adj |-> [k \in {} |-> {}]]

HasKey(g, n) == n \in DOMAIN g.adj

\* self.graph[n]: the defaultdict inserts the key n with an empty set when n
\* is missing, on every subscript, reads included.
Touch(g, n) == IF HasKey(g, n) THEN g ELSE [keys |-> Append(g.keys, n), adj |-> g.adj @@ (n :> {})]

\* del self.graph[n] / self.graph.pop(n), for a key n
DelKey(g, n) == LET NotN(x) == x # n IN [keys |-> SelectSeq(g.keys, NotN), adj |-> [k \in (DOMAIN g.adj) \ {n} |-> g.adj[k]]]

\* the neighbour set stored for n, read without the defaultdict's insertion
Adj(g, n) == IF HasKey(g, n) THEN g.adj[n] ELSE {}

\* --------------------------------------------------- adjacency core
nodeExists(g, n) == LET g1 == Touch(g, n) IN [g |-> g1, r |-> g1.adj[n] # {}]

edgeExists(g, node1, node2) == LET g1 == Touch(g, node1) IN [g |-> g1, r |-> node2 \in g1.adj[node1]]

addEdge(g, node1, node2) ==
  LET g1 == Touch(g, node1)
      g2 == [g1 EXCEPT !.adj[node1] = @ \cup {node2}]
      g3 == Touch(g2, node2)
  IN [g3 EXCEPT !.adj[node2] = @ \cup {node1}]

deleteEdge(g, node1, node2) ==
  LET g1 == Touch(g, node1)
      g2 == [g1 EXCEPT !.adj[node1] = @ \ {node2}]
      g3 == Touch(g2, node2)
  IN [g3 EXCEPT !.adj[node2] = @ \ {node1}]

\* for _node in self.graph: self.graph[_node].discard(node)
DiscardAll(g, node) == [g EXCEPT !.adj = [k \in DOMAIN g.adj |-> g.adj[k] \ {node}]]

\* deleteNode without its loop over the other nodes' sets
deleteNodeKeepRefs(g, node) == DelKey(Touch(g, node), node)

\* deleteNode with the compensating edges of dissolveNode: the neighbours of
\* the node are connected to each other
deleteNodeBridging(g, node) ==
  LET g1 == Touch(g, node)
      nbrs == g1.adj[node] \ {node}
      g2 == DiscardAll(DelKey(g1, node), node)
  IN [g2 EXCEPT !.adj = [k \in DOMAIN g2.adj |-> IF k \in nbrs THEN g2.adj[k] \cup (nbrs \ {k}) ELSE g2.adj[k]]]

deleteNode(g, node) ==
  LET g1 == Touch(g, node)
      g2 == [g1 EXCEPT !.adj[node] = {}]
      g3 == DelKey(g2, node)
  IN DiscardAll(g3, node)

\* itertools.combinations(s, 2), for a sequence s
RECURSIVE combinations(_)
combinations(s) ==
  IF Len(s) < 2 THEN <<>>
  ELSE [j \in 1..(Len(s) - 1) |-> <<s[1], s[j + 1]>>] \o combinations(Tail(s))

\* for nodepair in nodepairs: self.addEdge(nodepair[0], nodepair[1])
RECURSIVE AddPairs(_, _)
AddPairs(g, pairs) ==
  IF pairs = <<>> THEN g
  ELSE AddPairs(addEdge(g, pairs[1][1], pairs[1][2]), Tail(pairs))

\* dissolveNode: the graph and self.newnodes after the call.  self.newnodes is
\* created once, in __init__, and only ever added to.
\* dissolveNode without the edges between the former neighbours
dissolveNodeNoPairs(g, nn, node, ord) ==
  LET g1 == Touch(g, node)
      g2 == [g1 EXCEPT !.adj[node] = {}]
      nn2 == nn \cup {k \in DOMAIN g2.adj : node \in g2.adj[k]}
  IN [g |-> DiscardAll(g2, node), newnodes |-> nn2]

dissolveNode(g, nn, node, ord) ==
  LET g1 == Touch(g, node)
      g2 == [g1 EXCEPT !.adj[node] = {}]
      nn2 == nn \cup {k \in DOMAIN g2.adj : node \in g2.adj[k]}
      g3 == DiscardAll(g2, node)
  IN [g |-> AddPairs(g3, combinations(SetSeq(nn2, ord))), newnodes |-> nn2]

\* the midpoint (node1 + node2) * 0.5, when it is a node of the universe
MidInRange(node1, node2) == (node1[1] + node2[1]) % 2 = 0 /\ (node1[2] + node2[2]) % 2 = 0
Mid(node1, node2) == <<(node1[1] + node2[1]) \div 2, (node1[2] + node2[2]) \div 2>>

\* splitEdge without the call of deleteEdge
splitEdgeKeepEdge(g, node1, node2) ==
  LET newnode == Mid(node1, node2)
  IN addEdge(addEdge(g, node1, newnode), newnode, node2)

splitEdge(g, node1, node2) ==
  LET newnode == Mid(node1, node2)
      g1 == deleteEdge(g, node1, node2)
      g2 == addEdge(g1, node1, newnode)
  IN addEdge(g2, newnode, node2)

directlyConnected(g, node1, node2) ==
  LET g1 == Touch(g, node2)
      g2 == Touch(g1, node1)
  IN IF node1 \in g1.adj[node2] THEN [g |-> g1, r |-> TRUE]
     ELSE [g |-> g2, r |-> node2 \in g2.adj[node1]]

\* tuple(map(operator.add, targNode, offset))
Plus(targNode, offset) == <<targNode[1] + offset[1], targNode[2] + offset[2]>>

\* for node in adjNodes: self.addEdge(targNode, node)
RECURSIVE Reconnect(_, _, _)
Reconnect(g, targNode, nodes) ==
  IF nodes = <<>> THEN g
  ELSE Reconnect(addEdge(g, targNode, nodes[1]), targNode, Tail(nodes))

\* moveNode with tuple arguments: self.graph.pop(targNode) raises KeyError
\* when targNode is not a key, and the graph is then left as it was.
moveNode(g, targNode, offset, ord) ==
  IF ~HasKey(g, targNode) THEN [g |-> g, raised |-> "KeyError"]
  ELSE LET adjNodes == g.adj[targNode]
           g1 == DelKey(g, targNode)
           g2 == deleteNode(g1, targNode)
       IN [g |-> Reconnect(g2, Plus(targNode, offset), SetSeq(adjNodes, ord)), raised |-> "none"]

\* ------------------------------------------------------- connectivity
\* dfsrecrusive at call depth `depth`: a call deeper than `limit` raises
\* RecursionError (err), which unwinds every enclosing call.  The traversals
\* subscript self.graph only with keys (a neighbour is a key, the map being
\* symmetric), so the subscript inserts nothing.
RECURSIVE dfsrecrusive(_, _, _, _, _, _, _)
RECURSIVE RecNeighbours(_, _, _, _, _, _, _)
dfsrecrusive(g, thisnode, component, visited, depth, limit, ord) ==
  IF depth > limit THEN [err |-> TRUE, component |-> component, visited |-> visited]
  ELSE RecNeighbours(g, SetSeq(Adj(g, thisnode), ord), Append(component, thisnode),
                     Append(visited, thisnode), depth, limit, ord)

\* for adjnode in self.graph[thisnode]: ...
RecNeighbours(g, adjnodes, component, visited, depth, limit, ord) ==
  IF adjnodes = <<>> THEN [err |-> FALSE, component |-> component, visited |-> visited]
  ELSE IF adjnodes[1] \in Range(visited)
       THEN RecNeighbours(g, Tail(adjnodes), component, visited, depth, limit, ord)
       ELSE LET r == dfsrecrusive(g, adjnodes[1], component, visited, depth + 1, limit, ord)
            IN IF r.err THEN r
               ELSE RecNeighbours(g, Tail(adjnodes), r.component, r.visited, depth, limit, ord)

\* dfsiterative: the while loop over the explicit stack
RECURSIVE IterWhile(_, _, _, _, _)
IterWhile(g, stack, component, visited, ord) ==
  IF stack = <<>> THEN [component |-> component, visited |-> visited]
  ELSE LET node == stack[Len(stack)]
           rest == SubSeq(stack, 1, Len(stack) - 1)
       IN IF node \in Range(visited)
          THEN IterWhile(g, rest, component, visited, ord)
          ELSE IterWhile(g, rest \o SetSeq(Adj(g, node), ord), Append(component, node),
                         Append(visited, node), ord)

\* dfsiterative that starts from an empty visited list of its own
dfsiterativeOwnVisited(g, thisnode, visited, ord) == IterWhile(g, <<thisnode>>, <<>>, <<>>, ord)

dfsiterative(g, thisnode, visited, ord) == IterWhile(g, <<thisnode>>, <<>>, visited, ord)

\* the loop of the try block: for node in self.graph, recursive traversal
RECURSIVE TryLoop(_, _, _, _, _, _)
TryLoop(g, nodes, comps, visited, limit, ord) ==
  IF nodes = <<>> THEN [err |-> FALSE, comps |-> comps]
  ELSE IF nodes[1] \in Range(visited)
       THEN TryLoop(g, Tail(nodes), comps, visited, limit, ord)
       ELSE LET r == dfsrecrusive(g, nodes[1], <<>>, visited, 1, limit, ord)
            IN IF r.err THEN [err |-> TRUE, comps |-> comps]
               ELSE TryLoop(g, Tail(nodes), Append(comps, r.component), r.visited, limit, ord)

\* the loop of the except block: for node in self.graph, iterative traversal
RECURSIVE ExceptLoop(_, _, _, _, _)
ExceptLoop(g, nodes, comps, visited, ord) ==
  IF nodes = <<>> THEN comps
  ELSE IF nodes[1] \in Range(visited)
       THEN ExceptLoop(g, Tail(nodes), comps, visited, ord)
       ELSE LET r == dfsiterative(g, nodes[1], visited, ord)
            IN ExceptLoop(g, Tail(nodes), Append(comps, r.component), r.visited, ord)

\* connectedComps without the except block
connectedCompsNoExcept(g, limit, ord) ==
  LET t == TryLoop(g, g.keys, <<>>, <<>>, limit, ord)
  IN [comps |-> t.comps, switched |-> FALSE]

\* connectedComps: self.__connectedComps is cleared on entry, filled by the try
\* block and, on RecursionError, appended to by the except block, which starts
\* over with visited = [] but keeps the list as the try block left it.
connectedComps(g, limit, ord) ==
  LET t == TryLoop(g, g.keys, <<>>, <<>>, limit, ord)
  IN IF t.err THEN [comps |-> ExceptLoop(g, g.keys, t.comps, <<>>, ord), switched |-> TRUE]
     ELSE [comps |-> t.comps, switched |-> FALSE]

\* areConnected: the loop over comps, the list the access self.connectedComps
\* returned
areConnectedEither(comps, node1, node2) ==
  \E i \in 1..Len(comps) : node1 \in Range(comps[i]) \/ node2 \in Range(comps[i])

areConnected(comps, node1, node2) ==
  \E i \in 1..Len(comps) : node1 \in Range(comps[i]) /\ node2 \in Range(comps[i])

\* ------------------------------------------------------------ the tests
\* setUp of the tests with NNODES = k: the chain built from the new graph by
\* addEdge((i, i), (i + 1, i + 1)) for i = 0 .. k - 1
RECURSIVE setUp(_)
setUp(k) == IF k = 0 THEN EmptyGraph ELSE addEdge(setUp(k - 1), <<k - 1, k - 1>>, <<k, k>>)

\* ------------------------------------------------------- index tables
\* vertIndices: node |-> position among the keys, from 0
vertIndices(g) == [n \in DOMAIN g.adj |-> (CHOOSE i \in 1..Len(g.keys) : g.keys[i] = n) - 1]

\* dict.get: None (here -1) for a missing key
Get(d, n) == IF n \in DOMAIN d THEN d[n] ELSE 0 - 1

\* the set self.__edgeIndices before it is flattened: the index pairs of the
\* stored directions, intersected with combinations(values, 2), the pairs
\* (i, j) with i before j in the list of indices
EdgePairs(g) ==
  LET vi == vertIndices(g)
      all == {<<Get(vi, p[1]), Get(vi, p[2])>> : p \in UNION {{<<n, m>> : m \in g.adj[n]} : n \in DOMAIN g.adj}}
      vals == [i \in 1..Len(g.keys) |-> vi[g.keys[i]]]
  IN all \cap Range(combinations(vals))

\* list(chain.from_iterable(pairs)); the pairs are taken in lexicographic
\* order (the order of a set of pairs is not specified, and nothing here
\* depends on it)
RECURSIVE Flatten(_)
Flatten(pairs) ==
  IF pairs = {} THEN <<>>
  ELSE LET p == CHOOSE x \in pairs : \A y \in pairs : x[1] < y[1] \/ (x[1] = y[1] /\ x[2] <= y[2])
       IN p \o Flatten(pairs \ {p})

edgeIndices(g) == Flatten(EdgePairs(g))

\* ------------------------------------------------------------- state
VARIABLES graph, newnodes, last, ret, ops, track, pre, deleted
vars == <<graph, newnodes, last, ret, ops, track, pre, deleted>>

\* graph, newnodes: the fields of the Graph object.
\* last: the operation called last and its arguments.
\* ret: what that call returned or raised.  comps is self.__connectedComps as
\*   the call left it (the list is cleared on entry of every access, so what an
\*   earlier access left in it is never read), switched whether the except
\*   block ran, verts the table of vertIndices, edges the list of edgeIndices.
\* ops: the number of operations called so far.
\* track: whether the run keeps the two history variables pre and deleted; it
\*   is set at the start and never changes.
\* pre: the adjacency map as it was when the last call began.
\* deleted: the nodes deleteNode was called on, and no call since then had as
\*   an argument or as its new node (the midpoint of splitEdge, the new
\*   position of moveNode).
NoRet == [bool |-> FALSE, comps |-> <<>>, switched |-> FALSE, verts |-> <<>>, edges |-> <<>>, raised |-> "none"]

\* Graph(): the empty map and the empty newnodes
New ==
  /\ graph = EmptyGraph
  /\ newnodes = {}
  /\ last = [op |-> "init", args |-> <<>>]
  /\ ret = NoRet
  /\ ops = 0
  /\ pre = EmptyGraph
  /\ deleted = {}

Init == New /\ track = FALSE

InitHist == New /\ track = TRUE

\* the nodes a call has as arguments, and the node it makes
Named(op, args) ==
  CASE op = "moveNode" -> {args[1], Plus(args[1], args[2])}
    [] op = "splitEdge" -> {args[1], args[2], Mid(args[1], args[2])}
    [] OTHER -> Range(args)

History(op, args) ==
  /\ UNCHANGED track
  /\ pre' = IF track THEN graph ELSE pre
  /\ deleted' = IF ~track THEN deleted
                ELSE IF op = "deleteNode" THEN deleted \cup {args[1]}
                ELSE deleted \ Named(op, args)

\* connectedComps, areConnected, vertIndices and edgeIndices subscript
\* self.graph only with its keys and write only their own list or table, which
\* every access rebuilds from scratch: such a call changes nothing that a later
\* call reads.  A run is a sequence of calls that write to the graph (the other
\* operations, the three boolean queries included, whose subscripts insert
\* keys), followed by at most one of these four.
Readers == {"connectedComps", "areConnected", "vertIndices", "edgeIndices"}

\* The calls are made on graphs whose nodes are all in Nodes.
Called(op, args) == last.op \notin Readers /\ DOMAIN graph.adj \subseteq Nodes /\ ops < MaxOps /\ ops' = ops + 1 /\ last' = [op |-> op, args |-> args] /\ History(op, args)

Read(op, args) == last.op \notin Readers /\ DOMAIN graph.adj \subseteq Nodes /\ last' = [op |-> op, args |-> args] /\ UNCHANGED ops /\ History(op, args)

AddEdge(a, b) ==
  /\ Called("addEdge", <<a, b>>)
  /\ graph' = addEdge(graph, a, b)
  /\ ret' = NoRet
  /\ UNCHANGED newnodes

DeleteEdge(a, b) ==
  /\ Called("deleteEdge", <<a, b>>)
  /\ graph' = deleteEdge(graph, a, b)
  /\ ret' = NoRet
  /\ UNCHANGED newnodes

DeleteNode(n) ==
  /\ Called("deleteNode", <<n>>)
  /\ graph' = deleteNode(graph, n)
  /\ ret' = NoRet
  /\ UNCHANGED newnodes

DissolveNode(n, ord) ==
  /\ Called("dissolveNode", <<n>>)
  /\ LET d == dissolveNode(graph, newnodes, n, ord)
     IN graph' = d.g /\ newnodes' = d.newnodes
  /\ ret' = NoRet

\* splitEdge, for the pairs whose midpoint is a node of the universe
SplitEdge(a, b) ==
  /\ MidInRange(a, b)
  /\ Called("splitEdge", <<a, b>>)
  /\ graph' = splitEdge(graph, a, b)
  /\ ret' = NoRet
  /\ UNCHANGED newnodes

\* moveNode, for the offsets that lead to a node of the universe.  First
\* disjunct: both arguments are tuples.  Second: one is not (say the same
\* numbers in a list), an assert fails and the call returns at once.
MoveNode(n, off) ==
  /\ Plus(n, off) \in Nodes
  /\ Called("moveNode", <<n, off>>)
  /\ \/ \E ord \in Orders :
          LET m == moveNode(graph, n, off, ord)
          IN graph' = m.g /\ ret' = [NoRet EXCEPT !.raised = m.raised]
     \/ graph' = graph /\ ret' = [NoRet EXCEPT !.raised = "AssertionError caught"]
  /\ UNCHANGED newnodes

NodeExists(n) ==
  /\ Called("nodeExists", <<n>>)
  /\ LET q == nodeExists(graph, n)
     IN graph' = q.g /\ ret' = [NoRet EXCEPT !.bool = q.r]
  /\ UNCHANGED newnodes

EdgeExists(a, b) ==
  /\ Called("edgeExists", <<a, b>>)
  /\ LET q == edgeExists(graph, a, b)
     IN graph' = q.g /\ ret' = [NoRet EXCEPT !.bool = q.r]
  /\ UNCHANGED newnodes

DirectlyConnected(a, b) ==
  /\ Called("directlyConnected", <<a, b>>)
  /\ LET q == directlyConnected(graph, a, b)
     IN graph' = q.g /\ ret' = [NoRet EXCEPT !.bool = q.r]
  /\ UNCHANGED newnodes

ConnectedComps(limit, ord) ==
  /\ Read("connectedComps", <<>>)
  /\ \E c \in {connectedComps(graph, limit, ord)} :
       ret' = [NoRet EXCEPT !.comps = c.comps, !.switched = c.switched]
  /\ UNCHANGED <<graph, newnodes>>

AreConnected(limit, ord) ==
  \E c \in {connectedComps(graph, limit, ord)}, a, b \in Nodes :
       /\ Read("areConnected", <<a, b>>)
       /\ ret' = [NoRet EXCEPT !.bool = areConnected(c.comps, a, b), !.comps = c.comps, !.switched = c.switched]
       /\ UNCHANGED <<graph, newnodes>>

VertIndices ==
  /\ Read("vertIndices", <<>>)
  /\ ret' = [NoRet EXCEPT !.verts = vertIndices(graph)]
  /\ UNCHANGED <<graph, newnodes>>

EdgeIndices ==
  /\ Read("edgeIndices", <<>>)
  /\ ret' = [NoRet EXCEPT !.verts = vertIndices(graph), !.edges = edgeIndices(graph)]
  /\ UNCHANGED <<graph, newnodes>>

Next ==
  \/ \E a, b \in Nodes : AddEdge(a, b)
  \/ \E a, b \in Nodes : DeleteEdge(a, b)
  \/ \E n \in Nodes : DeleteNode(n)
  \/ \E n \in Nodes, ord \in Orders : DissolveNode(n, ord)
  \/ \E a, b \in Nodes : SplitEdge(a, b)
  \/ \E n \in Nodes, off \in Offsets : MoveNode(n, off)
  \/ \E n \in Nodes : NodeExists(n)
  \/ \E a, b \in Nodes : EdgeExists(a, b)
  \/ \E a, b \in Nodes : DirectlyConnected(a, b)
  \/ \E limit \in Limits, ord \in Orders : ConnectedComps(limit, ord)
  \/ \E limit \in Limits, ord \in Orders : AreConnected(limit, ord)
  \/ VertIndices
  \/ EdgeIndices

Spec == Init /\ [][Next]_vars

\* The same operations, addEdge and splitEdge being called with two distinct
\* nodes only.
NextDistinct ==
  \/ \E a, b \in Nodes : a # b /\ AddEdge(a, b)
  \/ \E a, b \in Nodes : DeleteEdge(a, b)
  \/ \E n \in Nodes : DeleteNode(n)
  \/ \E n \in Nodes, ord \in Orders : DissolveNode(n, ord)
  \/ \E a, b \in Nodes : a # b /\ SplitEdge(a, b)
  \/ \E n \in Nodes, off \in Offsets : MoveNode(n, off)
  \/ \E n \in Nodes : NodeExists(n)
  \/ \E a, b \in Nodes : EdgeExists(a, b)
  \/ \E a, b \in Nodes : DirectlyConnected(a, b)
  \/ \E limit \in Limits, ord \in Orders : ConnectedComps(limit, ord)
  \/ \E limit \in Limits, ord \in Orders : AreConnected(limit, ord)
  \/ VertIndices
  \/ EdgeIndices

SpecDistinct == Init /\ [][NextDistinct]_vars

\* The operations of Spec, the run keeping pre and deleted.
SpecHist == InitHist /\ [][Next]_vars

\* ------------------------------------------- a move out of the universe
\* A position outside Nodes, where no node of a graph over Nodes is, and the
\* iteration orders of the sets that may hold it.
Out == <<MaxCoord + 1, MaxCoord + 1>>
WideOrders == {Append(Ascending, Out), Reverse(Append(Ascending, Out))}

\* moveNode(n, offset) with the tuple offset that takes n to Out.  No further
\* call is made on the graph it leaves.
MoveNodeOut(n) ==
  /\ Called("moveNode", <<n, <<Out[1] - n[1], Out[2] - n[2]>>>>)
  /\ \E ord \in Orders :
       LET m == moveNode(graph, n, <<Out[1] - n[1], Out[2] - n[2]>>, ord)
       IN graph' = m.g /\ ret' = [NoRet EXCEPT !.raised = m.raised]
  /\ UNCHANGED newnodes

NextOut ==
  \/ Next
  \/ \E n \in Nodes : MoveNodeOut(n)

SpecOut == InitHist /\ [][NextOut]_vars

\* ------------------------------------------------- the two traversals
\* All pairs of nodes, and the graphs built from the new graph by addEdge on
\* some of them: every symmetric adjacency map over Nodes is among them.
AllPairs == combinations(Ascending) \o [i \in 1..Len(Ascending) |-> <<Ascending[i], Ascending[i]>>]
BuiltGraphs == {AddPairs(EmptyGraph, SetSeq(E, AllPairs)) : E \in SUBSET Range(AllPairs)}

InitDfs ==
  /\ graph \in BuiltGraphs
  /\ newnodes = {}
  /\ last = [op |-> "init", args |-> <<>>]
  /\ ret = NoRet
  /\ ops = 0
  /\ track = FALSE
  /\ pre = EmptyGraph
  /\ deleted = {}

\* dfsrecrusive(start, [], visited), visited being a list of the nodes of V
\* and the recursion limit deep enough for every graph over Nodes; last.args is
\* start followed by the list visited as it was passed, ret.comps the returned
\* component and the list visited as the call left it
DfsRecrusive(start, V, ordv, ord) ==
  /\ last.op = "init"
  /\ start \in DOMAIN graph.adj
  /\ start \notin V
  /\ last' = [op |-> "dfsrecrusive", args |-> <<start>> \o SetSeq(V, ordv)]
  /\ \E r \in {dfsrecrusive(graph, start, <<>>, SetSeq(V, ordv), 1, MaxCoord + 1, ord)} :
       ret' = [NoRet EXCEPT !.comps = <<r.component, r.visited>>,
                            !.raised = IF r.err THEN "RecursionError" ELSE "none"]
  /\ UNCHANGED <<graph, newnodes, ops, track, pre, deleted>>

\* dfsiterative(start, visited) with the same start and the same list visited:
\* its component and its list visited are appended to ret.comps
DfsIterative(ord) ==
  /\ last.op = "dfsrecrusive"
  /\ last' = [last EXCEPT !.op = "dfsiterative"]
  /\ \E r \in {dfsiterative(graph, Head(last.args), Tail(last.args), ord)} :
       ret' = [ret EXCEPT !.comps = ret.comps \o <<r.component, r.visited>>]
  /\ UNCHANGED <<graph, newnodes, ops, track, pre, deleted>>

NextDfs ==
  \/ \E start \in Nodes, V \in SUBSET Nodes, ordv, ord \in Orders : DfsRecrusive(start, V, ordv, ord)
  \/ \E ord \in Orders : DfsIterative(ord)

SpecDfs == InitDfs /\ [][NextDfs]_vars

\* ------------------------------------------------------------ properties
Zero == <<0, 0>>

\* the nodes reachable from the nodes of S along stored edges
RECURSIVE ReachFrom(_, _)
ReachFrom(g, S) ==
  LET T == S \cup UNION {Adj(g, x) : x \in S}
  IN IF T = S THEN S ELSE ReachFrom(g, T)

\* the undirected edges stored in g, self-loops included
Edges(g) == {{a, b} : a \in DOMAIN g.adj, b \in Nodes} \cap {{p[1], p[2]} : p \in {q \in (DOMAIN g.adj) \X Nodes : q[2] \in g.adj[q[1]]}}

\* how often node k occurs in the list of components comps
Occurrences(comps, k) == Cardinality({p \in (1..Len(comps)) \X (1..Cardinality(Nodes)) : p[2] <= Len(comps[p[1]]) /\ comps[p[1]][p[2]] = k})

\* C1: in every reachable state, for all nodes a and b, edgeExists(a, b) =
\* edgeExists(b, a): b is in a's neighbour set iff a is in b's.
C1_Symmetry ==
  \A a, b \in Nodes :
    /\ edgeExists(graph, a, b).r = edgeExists(graph, b, a).r
    /\ (b \in Adj(graph, a)) <=> (a \in Adj(graph, b))

\* C1 witness: moveNode has relocated a node, by a nonzero offset, and the
\* node at the new position has a neighbour other than itself.
C1_Witness ==
  /\ last.op = "moveNode"
  /\ ret.raised = "none"
  /\ last.args[2] # Zero
  /\ Adj(graph, Plus(last.args[1], last.args[2])) \ {Plus(last.args[1], last.args[2])} # {}

\* C2: a dissolveNode(n) step, n having two distinct neighbours a and b before
\* it, ends with edgeExists(a, b), with nodeExists(n) false and with
\* directlyConnected(x, n) false for every node x.
C2_DissolvePost ==
  [][last'.op = "dissolveNode" =>
       LET n == last'.args[1]
           S == Adj(graph, n) \ {n}
       IN Cardinality(S) >= 2 =>
            /\ \A a, b \in S : a # b => edgeExists(graph', a, b).r
            /\ ~nodeExists(graph', n).r
            /\ \A x \in Nodes : ~directlyConnected(graph', x, n).r]_vars

\* C3: a dissolveNode(n) step leaves the old edges that are not incident to n,
\* plus one edge for every unordered pair of n's former neighbours, and no
\* other edge (none at all when n had 0 or 1 neighbours).
C3_DissolveClique ==
  [][last'.op = "dissolveNode" =>
       LET n == last'.args[1]
           S == Adj(graph, n) \ {n}
       IN Edges(graph') = {e \in Edges(graph) : n \notin e} \cup {e \in SUBSET S : Cardinality(e) = 2}]_vars

\* C4: the list connectedComps returns is a partition of the keys: every key
\* occurs exactly once in it, and nothing but keys occurs in it.
C4_Partition ==
  last.op = "connectedComps" =>
    /\ \A k \in DOMAIN graph.adj : Occurrences(ret.comps, k) = 1
    /\ \A k \in Nodes \ DOMAIN graph.adj : Occurrences(ret.comps, k) = 0

\* C5: areConnected(a, b) returns true iff a and b are keys of the current map
\* and a path of stored edges joins them (the empty path when a = b), whatever
\* the recursion limit, that is with or without the iterative fallback.
C5_AreConnected ==
  last.op = "areConnected" =>
    LET a == last.args[1]
        b == last.args[2]
    IN ret.bool = (HasKey(graph, a) /\ HasKey(graph, b) /\ b \in ReachFrom(graph, {a}))

\* C5 witness: areConnected answered true, after the fallback to the iterative
\* traversal, for two distinct nodes that no edge joins directly.
C5_Witness ==
  /\ last.op = "areConnected"
  /\ ret.bool
  /\ ret.switched
  /\ last.args[1] # last.args[2]
  /\ last.args[2] \notin Adj(graph, last.args[1])

\* C6: a moveNode(n, offset) step on a node n (a key) with neighbour set S
\* leaves n + offset with exactly the neighbour set S, and nodeExists(n)
\* false unless the offset is zero.
C6_MovePost ==
  [][(last'.op = "moveNode" /\ ret'.raised = "none" /\ HasKey(graph, last'.args[1])) =>
       LET n == last'.args[1]
           offset == last'.args[2]
       IN /\ Adj(graph', Plus(n, offset)) = Adj(graph, n)
          /\ offset # Zero => ~nodeExists(graph', n).r]_vars

\* C7: when addEdge and splitEdge are only called with two distinct nodes, no
\* node is ever a member of its own neighbour set.
C7_NoSelfLoop == \A n \in Nodes : n \notin Adj(graph, n)

\* C8: no call of moveNode (with tuple arguments), deleteEdge or deleteNode
\* ends in an error, whether or not the node or edge it names is there.
C8_NoError ==
  last.op \in {"moveNode", "deleteEdge", "deleteNode"} => ret.raised # "KeyError"

\* C9: a deleteEdge(a, b) step on an edge that does not exist leaves the
\* adjacency map, its key set and every neighbour set, as it was.
C9_DeleteAbsentEdge ==
  [][(last'.op = "deleteEdge" /\ last'.args[2] \notin Adj(graph, last'.args[1])
        /\ last'.args[1] \notin Adj(graph, last'.args[2])) => graph' = graph]_vars

\* C10: the query operations leave the adjacency map, its key set and every
\* neighbour set, as it was.
Queries == {"nodeExists", "edgeExists", "directlyConnected", "areConnected", "connectedComps", "vertIndices", "edgeIndices"}
C10_QueriesReadOnly == [][last'.op \in Queries => graph' = graph]_vars

\* C11: a dissolveNode(n) step ends with n no longer a key of the adjacency
\* map: n is in no component of connectedComps, has no index in vertIndices,
\* and the map has one key less when n was a key.
C11_DissolveRemovesKey ==
  [][last'.op = "dissolveNode" =>
       LET n == last'.args[1]
       IN /\ ~HasKey(graph', n)
          /\ n \notin DOMAIN vertIndices(graph')
          /\ \A limit \in Limits, ord \in Orders : Occurrences(connectedComps(graph', limit, ord).comps, n) = 0
          /\ HasKey(graph, n) => Len(graph'.keys) = Len(graph.keys) - 1]_vars

\* the places (odd positions) of the list edges where the index pair <<i, j>>
\* stands
Places(edges, i, j) == {k \in 1..(Len(edges) \div 2) : edges[2 * k - 1] = i /\ edges[2 * k] = j}

\* C12: edgeIndices holds, for every unordered edge {u, v} of the adjacency
\* map, the index pair of u and v exactly once, in one direction only, and
\* nothing else: its length is twice the number of edges.
C12_EdgeIndices ==
  last.op = "edgeIndices" =>
    /\ Len(ret.edges) = 2 * Cardinality(Edges(graph))
    /\ \A u, v \in DOMAIN graph.adj :
         v \in graph.adj[u] =>
           Cardinality(Places(ret.edges, ret.verts[u], ret.verts[v]) \cup Places(ret.edges, ret.verts[v], ret.verts[u])) = 1

\* C13: splitEdge(a, b) on an existing edge between two different nodes a and
\* b ends with the midpoint m existing, m joined to a and to b, and a and b no
\* longer joined, also when m was a node already.
C13_SplitPost ==
  last.op = "splitEdge" =>
    LET a == last.args[1]
        b == last.args[2]
        m == Mid(a, b)
    IN (a # b /\ edgeExists(pre, a, b).r) =>
         /\ nodeExists(graph, m).r
         /\ edgeExists(graph, m, a).r
         /\ edgeExists(graph, m, b).r
         /\ ~edgeExists(graph, a, b).r

\* an edge was split whose midpoint was already a node with a neighbour
C13_Witness ==
  /\ last.op = "splitEdge"
  /\ last.args[1] # last.args[2]
  /\ edgeExists(pre, last.args[1], last.args[2]).r
  /\ nodeExists(pre, Mid(last.args[1], last.args[2])).r
  /\ ~edgeExists(graph, last.args[1], last.args[2]).r

\* C14: on the chain built from the empty graph by N calls
\* addEdge((i, i), (i + 1, i + 1)), connectedComps returns one component, of
\* N + 1 different nodes, under every recursion limit, the ones that make it
\* fall back to the iterative traversal included.
C14_ChainOneComponent ==
  \A N \in 1..MaxCoord :
    (last.op = "connectedComps" /\ graph = setUp(N)) =>
      /\ ret.raised = "none"
      /\ Len(ret.comps) = 1
      /\ Len(ret.comps[1]) = N + 1
      /\ Range(ret.comps[1]) = {<<i, i>> : i \in 0..N}

\* connectedComps fell back to the iterative traversal on the longest chain
C14_Witness ==
  /\ last.op = "connectedComps"
  /\ graph = setUp(MaxCoord)
  /\ ret.switched = TRUE
  /\ Len(ret.comps) = 1

\* C15: deleteNode(n) ends with n not a key and in no neighbour set,
\* nodeExists(n) false, the other keys as they were, and every edge between two
\* nodes other than n present iff it was present before.
C15_DeleteFrame ==
  last.op = "deleteNode" =>
    LET n == last.args[1]
    IN /\ ~HasKey(graph, n)
       /\ \A k \in DOMAIN graph.adj : n \notin graph.adj[k]
       /\ ~nodeExists(graph, n).r
       /\ DOMAIN graph.adj = (DOMAIN pre.adj) \ {n}
       /\ \A a, b \in Nodes \ {n} : b \in Adj(graph, a) <=> b \in Adj(pre, a)

\* a node with two neighbours was deleted, and an edge between two other nodes
\* is still there
C15_Witness ==
  /\ last.op = "deleteNode"
  /\ Cardinality(Adj(pre, last.args[1]) \ {last.args[1]}) >= 2
  /\ \E a, b \in Nodes \ {last.args[1]} : b \in Adj(graph, a)
  /\ ~HasKey(graph, last.args[1])

\* C17: two nodes x and y other than n that a path joined before
\* dissolveNode(n) are joined after it: areConnected(x, y) is true, under every
\* recursion limit and iteration order.
C17_DissolveKeepsConnected ==
  last.op = "dissolveNode" =>
    \A limit \in Limits, ord \in Orders :
      \A c \in {connectedComps(graph, limit, ord).comps} :
        \A x \in (DOMAIN pre.adj) \ {last.args[1]} :
          \A y \in ReachFrom(pre, {x}) \ {last.args[1]} : areConnected(c, x, y)

\* a node was dissolved that was the only link between two of its neighbours
C17_Witness ==
  /\ last.op = "dissolveNode"
  /\ \E x, y \in Nodes \ {last.args[1]} :
       /\ x # y
       /\ {x, y} \subseteq Adj(pre, last.args[1])
       /\ y \notin Adj(pre, x)
       /\ y \in Adj(graph, x)

\* C19: a node deleteNode was called on has no neighbours and is in no
\* neighbour set in every later state, as long as no call has it as an
\* argument or makes it (the set deleted holds these nodes).
C19_DeletedStaysDeleted ==
  \A n \in deleted :
    /\ Adj(graph, n) = {}
    /\ \A k \in DOMAIN graph.adj : n \notin graph.adj[k]

\* the number of components connectedComps returns
NComps(g, limit, ord) == Len(connectedComps(g, limit, ord).comps)

\* C16: moveNode(n, offset) with a tuple offset, for a node n with a neighbour
\* and no self-loop and a new position that is not a key, leaves the number of
\* keys, the number of edges len(edgeIndices) / 2, len(vertIndices) and the
\* number of components connectedComps returns as they were.
C16_MoveKeepsShape ==
  (last.op = "moveNode" /\ ret.raised = "none") =>
    LET n == last.args[1]
        target == Plus(n, last.args[2])
    IN (Adj(pre, n) # {} /\ n \notin Adj(pre, n) /\ ~HasKey(pre, target)) =>
         /\ Len(graph.keys) = Len(pre.keys)
         /\ Len(edgeIndices(graph)) = Len(edgeIndices(pre))
         /\ Cardinality(DOMAIN vertIndices(graph)) = Cardinality(DOMAIN vertIndices(pre))
         /\ \A limit \in Limits, ord \in WideOrders : NComps(graph, limit, ord) = NComps(pre, limit, ord)

\* the nodes a path from S reaches that has no node of V on it
RECURSIVE ReachAvoiding(_, _, _)
ReachAvoiding(g, V, S) ==
  LET T == S \cup (UNION {Adj(g, x) : x \in S} \ V)
  IN IF T = S THEN S ELSE ReachAvoiding(g, V, T)

\* C18: on a symmetric graph, for a list visited and a start node not in it,
\* dfsrecrusive(start, [], visited) and dfsiterative(start, visited) return the
\* same set of nodes, each node once: the nodes a path from start reaches that
\* avoids the nodes of visited; and both leave the same set in visited.
C18_TraversalsAgree ==
  last.op = "dfsiterative" =>
    LET start == Head(last.args)
        V == Range(Tail(last.args))
        R == ReachAvoiding(graph, V, {start})
    IN /\ ret.raised = "none"
       /\ Range(ret.comps[1]) = Range(ret.comps[3])
       /\ Range(ret.comps[1]) = R
       /\ Len(ret.comps[1]) = Cardinality(R)
       /\ Len(ret.comps[3]) = Cardinality(R)
       /\ Range(ret.comps[2]) = Range(ret.comps[4])
       /\ Range(ret.comps[2]) = V \cup R

\* both traversals ran from a start with a visited neighbour, which cut off a
\* node that a path from start reaches
C18_Witness ==
  /\ last.op = "dfsiterative"
  /\ Adj(graph, Head(last.args)) \cap Range(Tail(last.args)) # {}
  /\ ReachFrom(graph, {Head(last.args)}) \ Range(ret.comps[4]) # {}
  /\ Range(ret.comps[1]) = Range(ret.comps[3])

====
